---- MODULE Spec2Model ----
(***************************************************************************)
(* A model of the raycasting renderer: the player movement and collision   *)
(* resolver (player.rs) and the frame loop, pixel writers and the sprite   *)
(* rasterizer (main.rs).                                                   *)
(*                                                                         *)
(* Numbers.  f64 quantities are modelled in fixed point:                   *)
(*   - positions in 1/PosScale world units;                                *)
(*   - angles in units of pi/HalfTurn, so that ROTATE_SPEED = 0.02 rad is  *)
(*     one unit (pi/160 = 0.0196 rad);                                     *)
(*   - sines and cosines in thousandths (SinTable);                        *)
(*   - the darkening factor as an exact rational.  An f64 product that is  *)
(*     exactly an integer may come out one lower in the real build; the    *)
(*     model takes the exact value.                                        *)
(* u32/u16/i16 arithmetic stays far below its width for every value the    *)
(* model reaches, unless an action says otherwise (it then panics).        *)
(*                                                                         *)
(* Loops.  A `for` loop over a range is a recursion that splits the range  *)
(* in two and runs the halves in order.  No write lands on a screen of     *)
(* width 0 (put_pixel and put_darkened_pixel return at x >= width), so the *)
(* drawing loops hand such a screen back as it is.                         *)
(*                                                                         *)
(* constants.rs, map.rs, cache.rs and ray_caster.rs are not part of the    *)
(* sources at hand; what the model needs of them is taken from the         *)
(* specification and is marked as such where it is defined.                *)
(***************************************************************************)
EXTENDS Integers, Sequences, FiniteSets, TLC

VARIABLES
  video,      \* the Video struct: dimensions and framebuffer
  player,     \* the Player struct: x, y, view_angle, move_angle
  map,        \* the level's tile grid, map[col][row]
  pc,         \* control position of the running program or harness
  panicked,   \* TRUE once the process has panicked (index out of bounds, unwrap)
  call,       \* the last operation performed and what it observed
  shape,      \* loop state of Video::simple_scale_shape
  frame,      \* main-loop bookkeeping: frame_count, fps, iteration log, written pixels
  wall        \* loop state of the wall loops of draw_world

vars == <<video, player, map, pc, panicked, call, shape, frame, wall>>

----------------------------------------------------------------------------
(* Helpers *)

Min(a, b) == IF a <= b THEN a ELSE b

Max(a, b) == IF a >= b THEN a ELSE b

Abs(a) == IF a < 0 THEN -a ELSE a

\* Rust `f as u8` for a non-negative or negative real given as n/d: truncate
\* toward zero and saturate to 0..255.
AsU8(n, d) == IF n <= 0 THEN 0 ELSE Min(255, n \div d)

\* x >> 6
Shr6(x) == x \div 64

----------------------------------------------------------------------------
(* constants.rs (source not at hand).  The screen and map sizes are scaled  *)
(* down; the relations the code relies on are kept: the view height         *)
(* (BASE_HEIGHT - STATUS_LINES) * scale is even, the minimap and the FPS    *)
(* digits lie inside the view, the map is enclosed by a wall ring.          *)

BASE_WIDTH == 140

BASE_HEIGHT == 24

STATUS_LINES == 4

MAP_WIDTH == 5

MAP_HEIGHT == 5

MAP_SCALE_W == 16

MAP_SCALE_H == 16

WALLPIC_WIDTH == 64

----------------------------------------------------------------------------
(* main.rs: palette and pixel writers *)

VGA_FLOOR_COLOR == 25

\* VGA_CEILING_COLORS[level] for the levels the model runs (level 0: 0x1d)
VGA_CEILING_COLOR == 29

\* DARKNESS = 0.75 = DARKNESS_NUM / DARKNESS_DEN
DARKNESS_NUM == 3

DARKNESS_DEN == 4

\* the 6-bit VGA palette of build_color_map
palette ==
  <<
    <<0, 0, 0>>, <<0, 0, 42>>, <<0, 42, 0>>, <<0, 42, 42>>, <<42, 0, 0>>, <<42, 0, 42>>,
    <<42, 21, 0>>, <<42, 42, 42>>, <<21, 21, 21>>, <<21, 21, 63>>, <<21, 63, 21>>, <<21, 63, 63>>,
    <<63, 21, 21>>, <<63, 21, 63>>, <<63, 63, 21>>, <<63, 63, 63>>, <<59, 59, 59>>, <<55, 55, 55>>,
    <<52, 52, 52>>, <<48, 48, 48>>, <<45, 45, 45>>, <<42, 42, 42>>, <<38, 38, 38>>, <<35, 35, 35>>,
    <<31, 31, 31>>, <<28, 28, 28>>, <<25, 25, 25>>, <<21, 21, 21>>, <<18, 18, 18>>, <<14, 14, 14>>,
    <<11, 11, 11>>, <<8, 8, 8>>, <<63, 0, 0>>, <<59, 0, 0>>, <<56, 0, 0>>, <<53, 0, 0>>,
    <<50, 0, 0>>, <<47, 0, 0>>, <<44, 0, 0>>, <<41, 0, 0>>, <<38, 0, 0>>, <<34, 0, 0>>,
    <<31, 0, 0>>, <<28, 0, 0>>, <<25, 0, 0>>, <<22, 0, 0>>, <<19, 0, 0>>, <<16, 0, 0>>,
    <<63, 54, 54>>, <<63, 46, 46>>, <<63, 39, 39>>, <<63, 31, 31>>, <<63, 23, 23>>, <<63, 16, 16>>,
    <<63, 8, 8>>, <<63, 0, 0>>, <<63, 42, 23>>, <<63, 38, 16>>, <<63, 34, 8>>, <<63, 30, 0>>,
    <<57, 27, 0>>, <<51, 24, 0>>, <<45, 21, 0>>, <<39, 19, 0>>, <<63, 63, 54>>, <<63, 63, 46>>,
    <<63, 63, 39>>, <<63, 63, 31>>, <<63, 62, 23>>, <<63, 61, 16>>, <<63, 61, 8>>, <<63, 61, 0>>,
    <<57, 54, 0>>, <<51, 49, 0>>, <<45, 43, 0>>, <<39, 39, 0>>, <<33, 33, 0>>, <<28, 27, 0>>,
    <<22, 21, 0>>, <<16, 16, 0>>, <<52, 63, 23>>, <<49, 63, 16>>, <<45, 63, 8>>, <<40, 63, 0>>,
    <<36, 57, 0>>, <<32, 51, 0>>, <<29, 45, 0>>, <<24, 39, 0>>, <<54, 63, 54>>, <<47, 63, 46>>,
    <<39, 63, 39>>, <<32, 63, 31>>, <<24, 63, 23>>, <<16, 63, 16>>, <<8, 63, 8>>, <<0, 63, 0>>,
    <<0, 63, 0>>, <<0, 59, 0>>, <<0, 56, 0>>, <<0, 53, 0>>, <<1, 50, 0>>, <<1, 47, 0>>,
    <<1, 44, 0>>, <<1, 41, 0>>, <<1, 38, 0>>, <<1, 34, 0>>, <<1, 31, 0>>, <<1, 28, 0>>,
    <<1, 25, 0>>, <<1, 22, 0>>, <<1, 19, 0>>, <<1, 16, 0>>, <<54, 63, 63>>, <<46, 63, 63>>,
    <<39, 63, 63>>, <<31, 63, 62>>, <<23, 63, 63>>, <<16, 63, 63>>, <<8, 63, 63>>, <<0, 63, 63>>,
    <<0, 57, 57>>, <<0, 51, 51>>, <<0, 45, 45>>, <<0, 39, 39>>, <<0, 33, 33>>, <<0, 28, 28>>,
    <<0, 22, 22>>, <<0, 16, 16>>, <<23, 47, 63>>, <<16, 44, 63>>, <<8, 42, 63>>, <<0, 39, 63>>,
    <<0, 35, 57>>, <<0, 31, 51>>, <<0, 27, 45>>, <<0, 23, 39>>, <<54, 54, 63>>, <<46, 47, 63>>,
    <<39, 39, 63>>, <<31, 32, 63>>, <<23, 24, 63>>, <<16, 16, 63>>, <<8, 9, 63>>, <<0, 1, 63>>,
    <<0, 0, 63>>, <<0, 0, 59>>, <<0, 0, 56>>, <<0, 0, 53>>, <<0, 0, 50>>, <<0, 0, 47>>,
    <<0, 0, 44>>, <<0, 0, 41>>, <<0, 0, 38>>, <<0, 0, 34>>, <<0, 0, 31>>, <<0, 0, 28>>,
    <<0, 0, 25>>, <<0, 0, 22>>, <<0, 0, 19>>, <<0, 0, 16>>, <<10, 10, 10>>, <<63, 56, 13>>,
    <<63, 53, 9>>, <<63, 51, 6>>, <<63, 48, 2>>, <<63, 45, 0>>, <<45, 8, 63>>, <<42, 0, 63>>,
    <<38, 0, 57>>, <<32, 0, 51>>, <<29, 0, 45>>, <<24, 0, 39>>, <<20, 0, 33>>, <<17, 0, 28>>,
    <<13, 0, 22>>, <<10, 0, 16>>, <<63, 54, 63>>, <<63, 46, 63>>, <<63, 39, 63>>, <<63, 31, 63>>,
    <<63, 23, 63>>, <<63, 16, 63>>, <<63, 8, 63>>, <<63, 0, 63>>, <<56, 0, 57>>, <<50, 0, 51>>,
    <<45, 0, 45>>, <<39, 0, 39>>, <<33, 0, 33>>, <<27, 0, 28>>, <<22, 0, 22>>, <<16, 0, 16>>,
    <<63, 58, 55>>, <<63, 56, 52>>, <<63, 54, 49>>, <<63, 53, 47>>, <<63, 51, 44>>, <<63, 49, 41>>,
    <<63, 47, 39>>, <<63, 46, 36>>, <<63, 44, 32>>, <<63, 41, 28>>, <<63, 39, 24>>, <<60, 37, 23>>,
    <<58, 35, 22>>, <<55, 34, 21>>, <<52, 32, 20>>, <<50, 31, 19>>, <<47, 30, 18>>, <<45, 28, 17>>,
    <<42, 26, 16>>, <<40, 25, 15>>, <<39, 24, 14>>, <<36, 23, 13>>, <<34, 22, 12>>, <<32, 20, 11>>,
    <<29, 19, 10>>, <<27, 18, 9>>, <<23, 16, 8>>, <<21, 15, 7>>, <<18, 14, 6>>, <<16, 12, 6>>,
    <<14, 11, 5>>, <<10, 8, 3>>, <<24, 0, 25>>, <<0, 25, 25>>, <<0, 24, 24>>, <<0, 0, 7>>,
    <<0, 0, 11>>, <<12, 9, 4>>, <<18, 0, 18>>, <<20, 0, 20>>, <<0, 0, 13>>, <<7, 7, 7>>,
    <<19, 19, 19>>, <<23, 23, 23>>, <<16, 16, 16>>, <<12, 12, 12>>, <<13, 13, 13>>, <<54, 61, 61>>,
    <<46, 58, 58>>, <<39, 55, 55>>, <<29, 50, 50>>, <<18, 48, 48>>, <<8, 45, 45>>, <<8, 44, 44>>,
    <<0, 41, 41>>, <<0, 38, 38>>, <<0, 35, 35>>, <<0, 33, 33>>, <<0, 31, 31>>, <<0, 30, 30>>,
    <<0, 29, 29>>, <<0, 28, 28>>, <<0, 27, 27>>, <<38, 0, 34>>
  >>

\* build_color_map: 6-bit VGA channels widened to 8 bits; index i is entry i+1
color_map ==
  [i \in 1..Len(palette) |->
     <<(palette[i][1] * 255) \div 63, (palette[i][2] * 255) \div 63,
       (palette[i][3] * 255) \div 63>>]

ColorMapLen == Len(color_map)

Pack(r, g, b) == r * 65536 + g * 256 + b

Red(p) == p \div 65536

Green(p) == (p \div 256) % 256

Blue(p) == p % 256

\* Video::new(scale)
VideoNew(s) ==
  LET width == BASE_WIDTH * s
      height == BASE_HEIGHT * s
      pix_height == height - STATUS_LINES * s
  IN [scale |-> s, width |-> width, height |-> height, pix_width |-> width,
      pix_height |-> pix_height, pix_center |-> pix_height \div 2,
      buffer |-> [offset \in 0..(width * height - 1) |-> 0]]

\* buffer.len()
BufferLen(v) == v.width * v.height

\* self.buffer[offset]; the framebuffer is a Vec<u32> indexed from 0
BufferAt(v, offset) == v.buffer[offset]

\* self.buffer[offset] = value
BufferStore(buffer, offset, value) == [buffer EXCEPT ![offset] = value]

\* Video::put_pixel: the video after the call
PutPixel(v, x, y, color_index) ==
  IF x >= v.width \/ y >= v.height THEN v
  ELSE IF color_index >= ColorMapLen THEN v
  ELSE LET offset == y * v.width + x
           c == color_map[color_index + 1]
       IN IF offset < BufferLen(v)
          THEN [v EXCEPT !.buffer = BufferStore(@, offset, Pack(c[1], c[2], c[3]))]
          ELSE v

\* DarkenChannel darkening with the distance instead of lightening
DarkenChannelInverted(c, lightness, pix_center) ==
  AsU8(c * (pix_center - Min(lightness, pix_center)) * DARKNESS_DEN, pix_center * DARKNESS_NUM)

\* (channel as f64 * factor) as u8, factor = min(lightness, pix_center) / pix_center / DARKNESS
DarkenChannel(c, lightness, pix_center) ==
  AsU8(c * Min(lightness, pix_center) * DARKNESS_DEN, pix_center * DARKNESS_NUM)

\* Video::put_darkened_pixel reaches the palette lookup (line 296) with an index
\* outside the palette: the indexing panics
PutDarkenedPixelPanics(v, x, y, color_index) ==
  /\ ~(x >= v.width \/ y >= v.height)
  /\ ~(y * v.width + x >= BufferLen(v))
  /\ color_index >= ColorMapLen

\* Video::put_darkened_pixel: the video after the call (unchanged when it panics)
PutDarkenedPixel(v, x, y, color_index, lightness) ==
  IF x >= v.width \/ y >= v.height THEN v
  ELSE LET offset == y * v.width + x
       IN IF offset >= BufferLen(v) THEN v
          ELSE IF color_index >= ColorMapLen THEN v
          ELSE LET c == color_map[color_index + 1]
                   r == DarkenChannel(c[1], lightness, v.pix_center)
                   g == DarkenChannel(c[2], lightness, v.pix_center)
                   b == DarkenChannel(c[3], lightness, v.pix_center)
               IN [v EXCEPT !.buffer = BufferStore(@, offset, Pack(r, g, b))]

----------------------------------------------------------------------------
(* map.rs (source not at hand): the tile grid *)

\* Map::tile_at(col, row); a coordinate outside the grid reads as a wall
TileAt(m, col, row) ==
  IF col \in 0..(MAP_WIDTH - 1) /\ row \in 0..(MAP_HEIGHT - 1) THEN m[col][row] ELSE "Wall"

\* matches!(map.tile_at(col, row), Tile::Wall(_))
IsWall(m, col, row) == TileAt(m, col, row) = "Wall"

\* a level: the enclosing wall ring, floor inside, and the given inner walls and doors
Level(walls, doors) ==
  [col \in 0..(MAP_WIDTH - 1) |->
     [row \in 0..(MAP_HEIGHT - 1) |->
        IF col = 0 \/ row = 0 \/ col = MAP_WIDTH - 1 \/ row = MAP_HEIGHT - 1 THEN "Wall"
        ELSE IF <<col, row>> \in walls THEN "Wall"
        ELSE IF <<col, row>> \in doors THEN "Door"
        ELSE "Floor"]]

----------------------------------------------------------------------------
(* player.rs *)

\* positions are kept in 1/PosScale world units
PosScale == 10

\* round(1000 * sin(k * pi / 160)), k = 0..319
SinTable ==
  <<
    0, 20, 39, 59, 78, 98, 118, 137, 156, 176, 195, 214, 233, 252, 271, 290,
    309, 328, 346, 364, 383, 401, 419, 436, 454, 471, 489, 506, 522, 539, 556, 572,
    588, 604, 619, 634, 649, 664, 679, 693, 707, 721, 734, 748, 760, 773, 785, 797,
    809, 820, 831, 842, 853, 863, 872, 882, 891, 900, 908, 916, 924, 931, 938, 945,
    951, 957, 962, 968, 972, 977, 981, 984, 988, 991, 993, 995, 997, 998, 999, 1000,
    1000, 1000, 999, 998, 997, 995, 993, 991, 988, 984, 981, 977, 972, 968, 962, 957,
    951, 945, 938, 931, 924, 916, 908, 900, 891, 882, 872, 863, 853, 842, 831, 820,
    809, 797, 785, 773, 760, 748, 734, 721, 707, 693, 679, 664, 649, 634, 619, 604,
    588, 572, 556, 539, 522, 506, 489, 471, 454, 436, 419, 401, 383, 364, 346, 328,
    309, 290, 271, 252, 233, 214, 195, 176, 156, 137, 118, 98, 78, 59, 39, 20,
    0, -20, -39, -59, -78, -98, -118, -137, -156, -176, -195, -214, -233, -252, -271, -290,
    -309, -328, -346, -364, -383, -401, -419, -436, -454, -471, -489, -506, -522, -539, -556, -572,
    -588, -604, -619, -634, -649, -664, -679, -693, -707, -721, -734, -748, -760, -773, -785, -797,
    -809, -820, -831, -842, -853, -863, -872, -882, -891, -900, -908, -916, -924, -931, -938, -945,
    -951, -957, -962, -968, -972, -977, -981, -984, -988, -991, -993, -995, -997, -998, -999, -1000,
    -1000, -1000, -999, -998, -997, -995, -993, -991, -988, -984, -981, -977, -972, -968, -962, -957,
    -951, -945, -938, -931, -924, -916, -908, -900, -891, -882, -872, -863, -853, -842, -831, -820,
    -809, -797, -785, -773, -760, -748, -734, -721, -707, -693, -679, -664, -649, -634, -619, -604,
    -588, -572, -556, -539, -522, -506, -489, -471, -454, -436, -419, -401, -383, -364, -346, -328,
    -309, -290, -271, -252, -233, -214, -195, -176, -156, -137, -118, -98, -78, -59, -39, -20
  >>

HalfTurn == Len(SinTable) \div 2

FullTurn == 2 * HalfTurn

Sin(a) == SinTable[(a % FullTurn) + 1]

Cos(a) == Sin(a + HalfTurn \div 2)

\* f64::signum: 1.0 for a positive number and +0.0, -1.0 for a negative number
\* and -0.0.  A table entry of 0 stands for an f64 that is +0.0 or a tiny
\* number of either sign (sin(PI) is 1.2e-16), so both signs are possible.
Signum(s) == IF s > 0 THEN {1} ELSE IF s < 0 THEN {-1} ELSE {1, -1}

\* constants::norm_angle (source not at hand): into [0, 2 pi)
NormAngle(a) == a % FullTurn

\* ROTATE_SPEED = 0.02 rad, one angle unit
ROTATE_SPEED == 1

\* MOVE_SPEED = 2.5 = MOVE_SPEED_NUM / MOVE_SPEED_DEN world units
MOVE_SPEED_NUM == 5

MOVE_SPEED_DEN == 2

PLAYER_WIDTH == 7

StraightMovement == {"None", "Forward", "Backward"}

SideMovement == {"None", "StrafeRight", "StrafeLeft"}

TurnMovement == {"None", "TurnRight", "TurnLeft"}

\* lines 42-46: the view angle after the turn
TurnedAngle(view_angle, turn) ==
  CASE turn = "TurnLeft" -> NormAngle(view_angle + ROTATE_SPEED)
    [] turn = "TurnRight" -> NormAngle(view_angle - ROTATE_SPEED)
    [] OTHER -> view_angle

\* MoveAngle with the backward diagonals exchanged
MoveAngleSwappedDiagonals(view_angle, move_angle, straight, side) ==
  CASE straight = "Forward" ->
         (CASE side = "StrafeLeft" -> view_angle + HalfTurn \div 4
            [] side = "StrafeRight" -> view_angle - HalfTurn \div 4
            [] OTHER -> view_angle)
    [] straight = "Backward" ->
         (CASE side = "StrafeLeft" -> view_angle - HalfTurn + HalfTurn \div 4
            [] side = "StrafeRight" -> view_angle - HalfTurn - HalfTurn \div 4
            [] OTHER -> view_angle - HalfTurn)
    [] OTHER ->
         (CASE side = "StrafeLeft" -> view_angle + HalfTurn \div 2
            [] side = "StrafeRight" -> view_angle - HalfTurn \div 2
            [] OTHER -> move_angle)

\* lines 49-65: the movement heading from the (turned) view angle and the intents
MoveAngle(view_angle, move_angle, straight, side) ==
  CASE straight = "Forward" ->
         (CASE side = "StrafeLeft" -> view_angle + HalfTurn \div 4
            [] side = "StrafeRight" -> view_angle - HalfTurn \div 4
            [] OTHER -> view_angle)
    [] straight = "Backward" ->
         (CASE side = "StrafeLeft" -> view_angle - HalfTurn - HalfTurn \div 4
            [] side = "StrafeRight" -> view_angle - HalfTurn + HalfTurn \div 4
            [] OTHER -> view_angle - HalfTurn)
    [] OTHER ->
         (CASE side = "StrafeLeft" -> view_angle + HalfTurn \div 2
            [] side = "StrafeRight" -> view_angle - HalfTurn \div 2
            [] OTHER -> move_angle)

\* lines 67-70, in position units
CurrentMoveSpeed(run) ==
  IF run THEN (MOVE_SPEED_NUM * 2 * PosScale) \div MOVE_SPEED_DEN
  ELSE (MOVE_SPEED_NUM * PosScale) \div MOVE_SPEED_DEN

\* sin or cos (thousandths) times the speed, truncated to the position grid
Displacement(s, speed) ==
  IF s >= 0 THEN (s * speed) \div 1000 ELSE -(((-s) * speed) \div 1000)

\* lines 72-73
NewX(x, move_angle, run) == x + Displacement(Sin(move_angle), CurrentMoveSpeed(run))

NewY(y, move_angle, run) == y + Displacement(Cos(move_angle), CurrentMoveSpeed(run))

\* (new_map_x + collision_offset_x) as u8, with new_map_x = new_x / MAP_SCALE_W and
\* collision_offset_x = sg * PLAYER_WIDTH / MAP_SCALE_W
CellX(new_x, sg) == AsU8(new_x + sg * PLAYER_WIDTH * PosScale, MAP_SCALE_W * PosScale)

CellY(new_y, sg) == AsU8(new_y + sg * PLAYER_WIDTH * PosScale, MAP_SCALE_H * PosScale)

\* lines 83-89
IsCollisionSlideX(m, new_x, new_y, sgx, sgy) == IsWall(m, CellX(new_x, sgx), CellY(new_y, -sgy))

\* lines 91-97
IsCollisionSlideY(m, new_x, new_y, sgx, sgy) == IsWall(m, CellX(new_x, -sgx), CellY(new_y, sgy))

\* lines 99-105
IsCollisionBoth(m, new_x, new_y, sgx, sgy) == IsWall(m, CellX(new_x, sgx), CellY(new_y, sgy))

\* lines 108-123: |new_map + collision_offset - whole| times the tile size, where
\* whole is the floor (offset > 0) or the ceiling of new_map + collision_offset
CornerDepth(new_pos, sg, tile) ==
  LET v == new_pos + sg * PLAYER_WIDTH * PosScale
      whole == IF sg > 0 THEN (v \div tile) * tile ELSE (-((-v) \div tile)) * tile
  IN Abs(v - whole)

\* CornerKeepsX with the comparison turned around
CornerKeepsXReversed(new_x, new_y, sgx, sgy) ==
  CornerDepth(new_x, sgx, MAP_SCALE_W * PosScale) * MAP_SCALE_H
    < CornerDepth(new_y, sgy, MAP_SCALE_H * PosScale) * MAP_SCALE_W

\* lines 122-123: the x axis is the one kept
CornerKeepsX(new_x, new_y, sgx, sgy) ==
  CornerDepth(new_x, sgx, MAP_SCALE_W * PosScale) * MAP_SCALE_H
    > CornerDepth(new_y, sgy, MAP_SCALE_H * PosScale) * MAP_SCALE_W

\* Resolve with the corner branch taken whenever the corner cell is a wall
ResolveCornerUnguarded(p, m, new_x, new_y, sgx, sgy) ==
  LET slide_x == IsCollisionSlideX(m, new_x, new_y, sgx, sgy)
      slide_y == IsCollisionSlideY(m, new_x, new_y, sgx, sgy)
      both == IsCollisionBoth(m, new_x, new_y, sgx, sgy)
  IN IF both
     THEN IF CornerDepth(new_x, sgx, MAP_SCALE_W * PosScale) * MAP_SCALE_H
               > CornerDepth(new_y, sgy, MAP_SCALE_H * PosScale) * MAP_SCALE_W
          THEN [p EXCEPT !.x = new_x]
          ELSE [p EXCEPT !.y = new_y]
     ELSE [p EXCEPT !.x = IF ~slide_x THEN new_x ELSE @,
                    !.y = IF ~slide_y THEN new_y ELSE @]

\* lines 107-136: the position after collision resolution
Resolve(p, m, new_x, new_y, sgx, sgy) ==
  LET slide_x == IsCollisionSlideX(m, new_x, new_y, sgx, sgy)
      slide_y == IsCollisionSlideY(m, new_x, new_y, sgx, sgy)
      both == IsCollisionBoth(m, new_x, new_y, sgx, sgy)
  IN IF both /\ ~slide_x /\ ~slide_y
     THEN IF CornerKeepsX(new_x, new_y, sgx, sgy)
          THEN [p EXCEPT !.x = new_x]
          ELSE [p EXCEPT !.y = new_y]
     ELSE [p EXCEPT !.x = IF ~slide_x THEN new_x ELSE @,
                    !.y = IF ~slide_y THEN new_y ELSE @]

\* walk without the test for an intent (line 48): it moves along the old heading
WalkWithoutIntentTest(p, m, straight, side, turn, run, sgx, sgy) ==
  LET turned == [p EXCEPT !.view_angle = TurnedAngle(p.view_angle, turn)]
      moved == [turned EXCEPT
                  !.move_angle = MoveAngle(turned.view_angle, p.move_angle, straight, side)]
  IN Resolve(moved, m, NewX(p.x, moved.move_angle, run), NewY(p.y, moved.move_angle, run),
             sgx, sgy)

\* Player::walk.  sgx and sgy are the values signum gave for the sine and the
\* cosine of the movement heading.
Walk(p, m, straight, side, turn, run, sgx, sgy) ==
  LET turned == [p EXCEPT !.view_angle = TurnedAngle(p.view_angle, turn)]
  IN IF side # "None" \/ straight # "None"
     THEN LET moved == [turned EXCEPT
                          !.move_angle = MoveAngle(turned.view_angle, p.move_angle, straight, side)]
              new_x == NewX(p.x, moved.move_angle, run)
              new_y == NewY(p.y, moved.move_angle, run)
          IN Resolve(moved, m, new_x, new_y, sgx, sgy)
     ELSE turned

----------------------------------------------------------------------------
(* main.rs: Video::simple_scale_shape, one loop iteration per step *)

\* cache.rs (source not at hand): a sprite is its visible column bounds, the
\* per-column offset table and the byte stream.  Words are little-endian.
WordBytes(w) == <<w % 256, (w \div 256) % 256>>

\* a signed 16-bit value as the word that encodes it
I16Word(n) == IF n < 0 THEN n + 65536 ELSE n

\* one draw run of a column: rows [starty, endy), pixel bytes at newstart + row
RunBytes(starty, endy, newstart) ==
  WordBytes(2 * endy) \o WordBytes(I16Word(newstart)) \o WordBytes(2 * starty)

\* sprite_scale_factor (line 340)
SPRITE_SCALE_FACTOR == 2

\* lines 341-347: the values derived from the screen size
ShapeScale(v) == (v.pix_height + 1) \div 2

PixHeight(v) == ShapeScale(v) * SPRITE_SCALE_FACTOR

ActX(v) == v.pix_width \div 2 - ShapeScale(v)

UpperEdge(v) == v.pix_height \div 2 - ShapeScale(v)

\* a read that starts over at the head of the byte stream when it runs out
ByteAtCycled(s, pos) == s.shape_bytes[((s.cline + pos) % Len(s.shape_bytes)) + 1]

\* line.next().unwrap_or(&0) at position pos of the column's stream
ByteAt(s, pos) ==
  IF s.cline + pos + 1 <= Len(s.shape_bytes) THEN s.shape_bytes[s.cline + pos + 1] ELSE 0

\* read_word (lines 368-370)
ReadWord(s, pos) == ByteAt(s, pos) + 256 * ByteAt(s, pos + 1)

\* read_word_signed (lines 371-373)
ReadWordSigned(s, pos) ==
  LET w == ReadWord(s, pos) IN IF w >= 32768 THEN w - 65536 ELSE w

\* lines 340-352: the loop state on entry.  The u32 subtractions of lines 346
\* and 347 overflow (panic) when the scale exceeds half the view size.
ShapeStart(v, left_pix, right_pix, dataofs, shape_bytes) ==
  [pc |-> IF ActX(v) < 0 \/ UpperEdge(v) < 0 THEN "panic" ELSE "col",
   left_pix |-> left_pix, right_pix |-> right_pix, dataofs |-> dataofs,
   shape_bytes |-> shape_bytes,
   i |-> left_pix,
   pixcnt |-> left_pix * PixHeight(v),
   rpix |-> Shr6(left_pix * PixHeight(v)) + ActX(v),
   lpix |-> 0, cmdptr |-> 0, cline |-> 0, pos |-> 0, endy |-> 0, newstart |-> 0,
   j |-> 0, ycnt |-> 0, screndy |-> 0, scrstarty |-> 0, pixy |-> 0, col |-> 0]

\* lines 354-375 and 420: the head of `while i <= right_pix` up to the column's stream
StepCol(s, v) ==
  IF ~(s.i <= s.right_pix) THEN [s EXCEPT !.pc = "done"]
  ELSE LET lpix == s.rpix
           pixcnt == s.pixcnt + PixHeight(v)
           rpix == Shr6(pixcnt) + ActX(v)
       IN IF lpix >= v.pix_width THEN [s EXCEPT !.pc = "done", !.lpix = lpix]
          ELSE IF lpix # rpix /\ rpix > 0
          THEN LET clamp == rpix > v.pix_width
                   t == [s EXCEPT !.lpix = lpix, !.pixcnt = pixcnt,
                                  !.rpix = IF clamp THEN v.pix_width ELSE rpix,
                                  !.i = IF clamp THEN s.right_pix + 1 ELSE s.i]
               IN IF s.cmdptr >= Len(s.dataofs) THEN [t EXCEPT !.pc = "panic"]
                  ELSE IF s.dataofs[s.cmdptr + 1] > Len(s.shape_bytes)
                  THEN [t EXCEPT !.pc = "panic", !.cmdptr = s.cmdptr + 1]
                  ELSE [t EXCEPT !.pc = "dst", !.cmdptr = s.cmdptr + 1,
                                 !.cline = s.dataofs[s.cmdptr + 1]]
          ELSE [s EXCEPT !.lpix = lpix, !.pixcnt = pixcnt, !.rpix = rpix, !.i = s.i + 1]

\* lines 376-378 and 417: the head of `while lpix < rpix`
StepDst(s, v) ==
  IF s.lpix < s.rpix
  THEN [s EXCEPT !.pc = "run", !.endy = ReadWord(s, 0), !.pos = 2]
  ELSE [s EXCEPT !.pc = "col", !.i = s.i + 1]

\* lines 379-387: the head of `while endy > 0`
StepRun(s, v) ==
  IF s.endy > 0
  THEN LET starty == ReadWord(s, s.pos + 2) \div 2
           ycnt == starty * PixHeight(v)
           screndy == Shr6(ycnt) + UpperEdge(v)
       IN [s EXCEPT !.pc = "row", !.endy = s.endy \div 2,
                    !.newstart = ReadWordSigned(s, s.pos), !.pos = s.pos + 4,
                    !.j = starty, !.ycnt = ycnt, !.screndy = screndy, !.pixy = screndy]
  ELSE [s EXCEPT !.pc = "dst", !.lpix = s.lpix + 1]

\* StepRow without the clip of screndy to the view height (lines 402-405)
StepRowUnclipped(s, v) ==
  IF s.j < s.endy
  THEN LET scrstarty == s.screndy
           ycnt == s.ycnt + PixHeight(v)
           screndy == Shr6(ycnt) + UpperEdge(v)
       IN IF scrstarty # screndy /\ screndy > 0
          THEN LET index == s.newstart + s.j
                   t == [s EXCEPT !.ycnt = ycnt,
                                  !.scrstarty = IF scrstarty < 0 THEN 0 ELSE scrstarty,
                                  !.screndy = screndy]
               IN IF index > 32767 \/ index >= Len(s.shape_bytes)
                  THEN [t EXCEPT !.pc = "panic"]
                  ELSE [t EXCEPT !.pc = "pix",
                                 !.col = IF index >= 0 THEN s.shape_bytes[index + 1] ELSE 0]
          ELSE [s EXCEPT !.ycnt = ycnt, !.scrstarty = scrstarty, !.screndy = screndy,
                         !.j = s.j + 1]
  ELSE [s EXCEPT !.pc = "run", !.endy = ReadWord(s, s.pos), !.pos = s.pos + 2]

\* lines 388-405 and 413-415: the head of `while j < endy`
StepRow(s, v) ==
  IF s.j < s.endy
  THEN LET scrstarty == s.screndy
           ycnt == s.ycnt + PixHeight(v)
           screndy == Shr6(ycnt) + UpperEdge(v)
       IN IF scrstarty # screndy /\ screndy > 0
          THEN LET index == s.newstart + s.j
                   clip == screndy > v.pix_height
                   t == [s EXCEPT !.ycnt = ycnt,
                                  !.scrstarty = IF scrstarty < 0 THEN 0 ELSE scrstarty,
                                  !.screndy = IF clip THEN v.pix_height ELSE screndy,
                                  !.j = IF clip THEN s.endy ELSE s.j]
               IN IF index > 32767 \/ index >= Len(s.shape_bytes)
                  THEN [t EXCEPT !.pc = "panic"]
                  ELSE [t EXCEPT !.pc = "pix",
                                 !.col = IF index >= 0 THEN s.shape_bytes[index + 1] ELSE 0]
          ELSE [s EXCEPT !.ycnt = ycnt, !.scrstarty = scrstarty, !.screndy = screndy,
                         !.j = s.j + 1]
  ELSE [s EXCEPT !.pc = "run", !.endy = ReadWord(s, s.pos), !.pos = s.pos + 2]

\* the loop state of lines 407-411 writes a pixel in this step
WritesPixel(s) == s.pc = "pix" /\ s.scrstarty < s.screndy

\* lines 407-411: the head of `while scrstarty < screndy`, without the pixel write
StepPix(s, v) ==
  IF s.scrstarty < s.screndy
  THEN [s EXCEPT !.pixy = s.pixy + 1, !.scrstarty = s.scrstarty + 1]
  ELSE [s EXCEPT !.pc = "row", !.j = s.j + 1]

\* one step of the rasterizer: the loop state after it
ShapeStep(s, v) ==
  CASE s.pc = "col" -> StepCol(s, v)
    [] s.pc = "dst" -> StepDst(s, v)
    [] s.pc = "run" -> StepRun(s, v)
    [] s.pc = "row" -> StepRow(s, v)
    [] s.pc = "pix" -> StepPix(s, v)
    [] OTHER -> s

\* line 408: the video after the step
ShapeStepVideo(s, v) == IF WritesPixel(s) THEN PutPixel(v, s.lpix, s.pixy, s.col) ELSE v

\* loop steps a call of simple_scale_shape is followed for
MaxShapeSteps == 4096

RECURSIVE ShapeSteps(_, _)
\* the next n steps of Video::simple_scale_shape, or as many as it takes to return
ShapeSteps(st, n) ==
  IF n = 0 \/ st.shape.pc \in {"done", "panic"} THEN st
  ELSE IF n = 1
  THEN [shape |-> ShapeStep(st.shape, st.video), video |-> ShapeStepVideo(st.shape, st.video)]
  ELSE ShapeSteps(ShapeSteps(st, n \div 2), n - (n \div 2))

\* Video::simple_scale_shape
SimpleScaleShape(v, left_pix, right_pix, dataofs, shape_bytes) ==
  ShapeSteps([shape |-> ShapeStart(v, left_pix, right_pix, dataofs, shape_bytes), video |-> v],
           MaxShapeSteps)

----------------------------------------------------------------------------
(* main.rs: the drawing steps of a frame *)

RECURSIVE PutPixelsRange(_, _, _, _)
\* the put_pixel calls writes[lo], ..., writes[hi] in order; a write is <<x, y, color_index>>
PutPixelsRange(v, writes, lo, hi) ==
  IF lo > hi \/ v.width = 0 THEN v
  ELSE IF lo = hi THEN PutPixel(v, writes[lo][1], writes[lo][2], writes[lo][3])
  ELSE LET mid == (lo + hi) \div 2
       IN PutPixelsRange(PutPixelsRange(v, writes, lo, mid), writes, mid + 1, hi)

\* the put_pixel calls of a loop, in the order the loop makes them
PutPixels(v, writes, k) == PutPixelsRange(v, writes, k, Len(writes))

\* cache.rs (source not at hand): the title picture, BASE_WIDTH x BASE_HEIGHT
\* palette indices in the quartered layout
TitlePic ==
  [width |-> BASE_WIDTH, height |-> BASE_HEIGHT,
   data |-> [k \in 1..(BASE_WIDTH * BASE_HEIGHT) |-> 32 + (k % 16)]]

\* lines 318-320: the palette index of picture pixel (x, y)
PicColor(pic, x, y) ==
  pic.data[(y * (pic.width \div 4) + (x \div 4))
             + (x % 4) * (pic.width \div 4) * pic.height + 1]

\* lines 316-328: one row of the picture, each pixel a scale x scale block
TextureRowWrites(v, shift_x, shift_y, pic, y) ==
  [k \in 1..(pic.width * v.scale * v.scale) |->
     LET x == (k - 1) \div (v.scale * v.scale)
         i == ((k - 1) % (v.scale * v.scale)) \div v.scale
         j == (k - 1) % v.scale
     IN <<x * v.scale + j + shift_x, y * v.scale + i + shift_y, PicColor(pic, x, y)>>]

RECURSIVE DrawTextureRows(_, _, _, _, _, _)
\* lines 315-330: rows lo, ..., hi - 1 of the picture, in order
DrawTextureRows(v, shift_x, shift_y, pic, lo, hi) ==
  IF lo >= hi \/ v.width = 0 THEN v
  ELSE IF hi = lo + 1 THEN PutPixels(v, TextureRowWrites(v, shift_x, shift_y, pic, lo), 1)
  ELSE LET mid == (lo + hi) \div 2
       IN DrawTextureRows(DrawTextureRows(v, shift_x, shift_y, pic, lo, mid),
                          shift_x, shift_y, pic, mid, hi)

\* Video::draw_texture
DrawTexture(v, shift_x, shift_y, pic) == DrawTextureRows(v, shift_x, shift_y, pic, 0, pic.height)

RECURSIVE SkyFloorColumn(_, _, _, _)
\* lines 180-185: rows lo, ..., hi - 1 of column x: ceiling above the horizon, floor below
SkyFloorColumn(v, x, lo, hi) ==
  IF lo >= hi \/ v.width = 0 THEN v
  ELSE IF hi = lo + 1
  THEN IF lo < v.pix_height \div 2
       THEN PutDarkenedPixel(v, x, lo, VGA_CEILING_COLOR, v.pix_center - lo)
       ELSE PutDarkenedPixel(v, x, lo, VGA_FLOOR_COLOR, lo - v.pix_center)
  ELSE LET mid == (lo + hi) \div 2
       IN SkyFloorColumn(SkyFloorColumn(v, x, lo, mid), x, mid, hi)

RECURSIVE SkyFloor(_, _, _)
\* lines 179-186: columns lo, ..., hi - 1
SkyFloor(v, lo, hi) ==
  IF lo >= hi \/ v.width = 0 THEN v
  ELSE IF hi = lo + 1 THEN SkyFloorColumn(v, lo, 0, v.pix_height)
  ELSE LET mid == (lo + hi) \div 2
       IN SkyFloor(SkyFloor(v, lo, mid), mid, hi)

\* cache.rs (source not at hand): byte `source` of wall texture `wallpic`
Texel(wallpic, source) == (wallpic * 16 + source) % 256

\* lines 191-195
WallPic(hit) == IF hit.horizontal THEN (hit.tile - 1) * 2 ELSE (hit.tile - 1) * 2 + 1

\* The pairs <<current, k>>, current up to 32, at which the f64 sum of k steps
\* WALLPIC_WIDTH / 2 / current (lines 201, 212) comes out just below the integer
\* k * WALLPIC_WIDTH / (2 * current), as computed in f64 arithmetic.
YTexBelow ==
  {<<6, 6>>, <<7, 7>>, <<10, 10>>, <<12, 6>>, <<12, 15>>, <<12, 18>>, <<12, 21>>,
   <<13, 13>>, <<14, 7>>, <<14, 14>>, <<14, 21>>, <<15, 15>>, <<19, 19>>, <<20, 10>>,
   <<22, 22>>, <<22, 33>>, <<23, 23>>, <<24, 6>>, <<24, 15>>, <<24, 18>>, <<24, 21>>,
   <<24, 24>>, <<24, 27>>, <<26, 13>>, <<26, 26>>, <<27, 27>>, <<28, 7>>, <<28, 14>>,
   <<28, 21>>, <<28, 28>>, <<29, 29>>, <<30, 15>>, <<30, 30>>, <<31, 31>>}

\* YTex with the step WALLPIC_WIDTH / current, the halving left out
YTexFullStep(k, current) == (k * WALLPIC_WIDTH) \div current

\* ytex as usize (line 206) after k additions of step (line 212): the exact
\* quotient, or one less where the f64 sum falls short of it
YTex(k, current) ==
  (k * WALLPIC_WIDTH) \div (2 * current) - (IF <<current, k>> \in YTexBelow THEN 1 ELSE 0)

\* line 205: the row is drawn
WallRowDrawn(v, y) == y >= 0 /\ y <= v.pix_height

RECURSIVE WallColumn(_, _, _, _, _)
\* lines 204-213: rows lo, ..., hi - 1 of the wall in column x
WallColumn(v, x, hit, lo, hi) ==
  IF lo >= hi \/ v.width = 0 THEN v
  ELSE IF hi = lo + 1
  THEN IF WallRowDrawn(v, lo)
       THEN PutDarkenedPixel(v, x, lo,
              Texel(WallPic(hit),
                    YTex(lo - (v.pix_center - hit.height), hit.height)
                      + hit.tex_x * WALLPIC_WIDTH),
              hit.height)
       ELSE v
  ELSE LET mid == (lo + hi) \div 2
       IN WallColumn(WallColumn(v, x, hit, lo, mid), x, hit, mid, hi)

RECURSIVE Walls(_, _, _, _)
\* lines 188-214: columns lo, ..., hi - 1; ray_hits[x] is hits[x + 1]
Walls(v, hits, lo, hi) ==
  IF lo >= hi \/ v.width = 0 THEN v
  ELSE IF hi = lo + 1
  THEN WallColumn(v, lo, hits[lo + 1], v.pix_center - hits[lo + 1].height,
                  v.pix_center + hits[lo + 1].height)
  ELSE LET mid == (lo + hi) \div 2
       IN Walls(Walls(v, hits, lo, mid), hits, mid, hi)

\* draw_world, given the ray hits of the frame
DrawWorld(v, hits) == Walls(SkyFloor(v, 0, v.pix_width), hits, 0, v.pix_width)

\* minimap_size (line 472)
MINIMAP_SIZE == 128

\* the inset's margin (lines 476-477)
MINIMAP_MARGIN == 10

\* the minimap scale main passes (line 106)
MINIMAP_SCALE == 2

\* player_color_index (line 501)
PLAYER_COLOR_INDEX == 10

\* lines 479-496: the tile squares in loop order
MinimapWrites(v, m, minimap_scale) ==
  LET block == minimap_scale * minimap_scale
  IN [k \in 1..(MAP_HEIGHT * MAP_WIDTH * block) |->
        LET y == (k - 1) \div (MAP_WIDTH * block)
            x == ((k - 1) \div block) % MAP_WIDTH
            i == ((k - 1) % block) \div minimap_scale
            j == (k - 1) % minimap_scale
        IN <<v.width - MINIMAP_SIZE - MINIMAP_MARGIN + x * minimap_scale + i,
             MINIMAP_MARGIN + y * minimap_scale + j,
             IF IsWall(m, x, y) THEN 255 ELSE 0>>]

\* lines 498-507: the player's marker; player.x as u32 truncates
PlayerMarkerWrites(v, p, minimap_scale) ==
  LET player_x == ((Max(p.x, 0) \div PosScale) \div MAP_SCALE_W) * minimap_scale
                    + v.width - MINIMAP_SIZE - MINIMAP_MARGIN
      player_y == ((Max(p.y, 0) \div PosScale) \div MAP_SCALE_H) * minimap_scale
                    + MINIMAP_MARGIN
  IN [k \in 1..(minimap_scale * minimap_scale) |->
        <<player_x + ((k - 1) \div minimap_scale), player_y + ((k - 1) % minimap_scale),
          PLAYER_COLOR_INDEX>>]

\* Video::draw_minimap
DrawMinimap(v, m, p, minimap_scale) ==
  PutPixels(PutPixels(v, MinimapWrites(v, m, minimap_scale), 1),
            PlayerMarkerWrites(v, p, minimap_scale), 1)

\* DIGITS (lines 435-446): five rows of three bits per digit
DIGITS ==
  << <<7, 5, 5, 5, 7>>, <<2, 6, 2, 2, 7>>, <<7, 1, 7, 4, 7>>, <<7, 1, 7, 1, 7>>,
     <<5, 5, 7, 1, 1>>, <<7, 4, 7, 1, 7>>, <<7, 4, 7, 5, 7>>, <<7, 1, 1, 1, 1>>,
     <<7, 5, 7, 5, 7>>, <<7, 5, 7, 1, 7>> >>

\* row & (1 << (2 - dx)) != 0
BitSet(row, dx) == (row \div (IF dx = 0 THEN 4 ELSE IF dx = 1 THEN 2 ELSE 1)) % 2 = 1

\* lines 454-468: the put_pixel calls of the glyph in loop order, one scale x scale
\* block for every set bit
DigitWrites(x, y, digit, scale) ==
  LET cells ==
        [k \in 1..(5 * 3 * scale * scale) |->
           LET dy == (k - 1) \div (3 * scale * scale)
               dx == ((k - 1) \div (scale * scale)) % 3
               sy == ((k - 1) % (scale * scale)) \div scale
               sx == (k - 1) % scale
           IN <<x + dx * scale + sx, y + dy * scale + sy, 255,
                BitSet(DIGITS[digit + 1][dy + 1], dx)>>]
  IN SelectSeq(cells, LAMBDA c : c[4])

\* Video::draw_digit
DrawDigit(v, x, y, digit, scale) ==
  IF digit > 9 THEN v ELSE PutPixels(v, DigitWrites(x, y, digit, scale), 1)

RECURSIVE DecimalDigits(_)
\* fps.to_string(): the decimal digits, most significant first
DecimalDigits(n) == IF n < 10 THEN <<n>> ELSE Append(DecimalDigits(n \div 10), n % 10)

\* the counter's place and size (lines 425-427)
FPS_X == 5

FPS_Y == 5

FPS_SCALE == 2

RECURSIVE DrawDigits(_, _, _)
\* lines 429-431: digits i, i+1, ... (i counts from 1)
DrawDigits(v, digits, i) ==
  IF i > Len(digits) \/ v.width = 0 THEN v
  ELSE DrawDigits(DrawDigit(v, FPS_X + (i - 1) * 4 * FPS_SCALE, FPS_Y, digits[i], FPS_SCALE),
                  digits, i + 1)

\* Video::draw_fps_counter
DrawFpsCounter(v, fps) == DrawDigits(v, DecimalDigits(fps), 1)

----------------------------------------------------------------------------
(* cache.rs (source not at hand): sprites *)

\* pixel bytes of the sprites: palette indices 1..Len
PixelBytes(len) == [k \in 1..len |-> 1 + (k % 200)]

\* a column's run list: the runs and the zero word that ends it
ColumnBytes(runs, terminated) == runs \o (IF terminated THEN WordBytes(0) ELSE <<>>)

\* a sprite whose columns all share one run list, stored after rows pixel bytes
Sprite(left_pix, right_pix, columns, rows, runs, terminated) ==
  [left_pix |-> left_pix, right_pix |-> right_pix,
   dataofs |-> [k \in 1..columns |-> rows],
   shape_bytes |-> PixelBytes(rows) \o ColumnBytes(runs, terminated)]

\* the weapon: all 64 columns, rows 8..23 and 40..63
WeaponSprite ==
  Sprite(0, 63, 64, 64, RunBytes(8, 24, 0) \o RunBytes(40, 64, 0), TRUE)

\* a narrow sprite of one run whose pixel bytes are addressed with a negative offset
NarrowSprite == Sprite(30, 33, 4, 20, RunBytes(20, 40, -20), TRUE)

\* a sprite whose stream ends without the terminating zero word
UnterminatedSprite == Sprite(28, 35, 8, 64, RunBytes(0, 64, 0), FALSE)

\* a sprite taller than the 64 rows of the sprite grid: its run is clipped at the view's bottom
TallSprite == Sprite(16, 47, 32, 80, RunBytes(32, 80, 0), TRUE)

Sprites == {WeaponSprite, NarrowSprite, UnterminatedSprite, TallSprite}

----------------------------------------------------------------------------
(* Values of the variables a specification does not use *)

NoVideo ==
  [scale |-> 0, width |-> 0, height |-> 0, pix_width |-> 0, pix_height |-> 0,
   pix_center |-> 0, buffer |-> <<>>]

NoPlayer == [x |-> 0, y |-> 0, view_angle |-> 0, move_angle |-> 0]

NoMap == <<>>

NoShape == [pc |-> "idle"]

NoFrame == [frame_count |-> 0]

NoWall == [pc |-> "idle"]

NoCall == [op |-> "none", n |-> 0]

----------------------------------------------------------------------------
(* SpecPixel: the two pixel writers called with arbitrary arguments *)

\* number of calls made in one run of SpecPixel
MaxCalls == 1

PixelXs == {0, BASE_WIDTH - 1, BASE_WIDTH, BASE_WIDTH + 3}

PixelYs == {0, BASE_HEIGHT - 1, BASE_HEIGHT}

ColorIndices == {15, VGA_FLOOR_COLOR, 57, ColorMapLen - 1, ColorMapLen, ColorMapLen + 44}

Lightnesses(v) == {0, 1, v.pix_center - 1, v.pix_center, v.pix_center + 5}

InitPixel ==
  /\ video = VideoNew(1)
  /\ player = NoPlayer
  /\ map = NoMap
  /\ pc = "pixel"
  /\ panicked = FALSE
  /\ call = NoCall
  /\ shape = NoShape
  /\ frame = NoFrame
  /\ wall = NoWall

CallPutPixel ==
  /\ pc = "pixel" /\ ~panicked /\ call.n < MaxCalls
  /\ \E x \in PixelXs, y \in PixelYs, color_index \in ColorIndices :
       /\ video' = PutPixel(video, x, y, color_index)
       /\ call' = [op |-> "put_pixel", n |-> call.n + 1, x |-> x, y |-> y,
                   color_index |-> color_index, lightness |-> 0,
                   changed |-> PutPixel(video, x, y, color_index).buffer # video.buffer]
  /\ UNCHANGED <<player, map, pc, panicked, shape, frame, wall>>

CallPutDarkenedPixel ==
  /\ pc = "pixel" /\ ~panicked /\ call.n < MaxCalls
  /\ \E x \in PixelXs, y \in PixelYs, color_index \in ColorIndices,
        lightness \in Lightnesses(video) :
       /\ video' = PutDarkenedPixel(video, x, y, color_index, lightness)
       /\ panicked' = PutDarkenedPixelPanics(video, x, y, color_index)
       /\ call' = [op |-> "put_darkened_pixel", n |-> call.n + 1, x |-> x, y |-> y,
                   color_index |-> color_index, lightness |-> lightness,
                   changed |-> PutDarkenedPixel(video, x, y, color_index, lightness).buffer
                                 # video.buffer]
  /\ UNCHANGED <<player, map, pc, shape, frame, wall>>

NextPixel == CallPutPixel \/ CallPutDarkenedPixel

SpecPixel == InitPixel /\ [][NextPixel]_vars

----------------------------------------------------------------------------
(* SpecWalk: Player::walk called with arbitrary intents *)

\* number of calls of walk in one run of SpecWalk
MaxWalks == 1

\* an empty room, a room with a pillar in the middle, a room with a door and a wall
Levels == {Level({}, {}), Level({<<2, 2>>}, {}), Level({<<3, 1>>}, {<<2, 1>>})}

\* spawn points (tile centres) and positions a walk leaves the player at
StartPositions ==
  {<<24 * PosScale, 24 * PosScale>>, <<24 * PosScale, 40 * PosScale>>,
   <<(47 * PosScale) \div 2, (81 * PosScale) \div 2>>, <<55 * PosScale, 56 * PosScale>>}

StartAngles == {0, 27, HalfTurn}

InitWalk ==
  /\ video = NoVideo
  /\ map \in Levels
  /\ \E pos \in StartPositions, a \in StartAngles :
       /\ ~IsWall(map, pos[1] \div (MAP_SCALE_W * PosScale), pos[2] \div (MAP_SCALE_H * PosScale))
       /\ player = [x |-> pos[1], y |-> pos[2], view_angle |-> a, move_angle |-> a]
  /\ pc = "walk"
  /\ panicked = FALSE
  /\ call = NoCall
  /\ shape = NoShape
  /\ frame = NoFrame
  /\ wall = NoWall

CallWalk ==
  /\ pc = "walk" /\ call.n < MaxWalks
  /\ \E straight \in StraightMovement, side \in SideMovement, turn \in TurnMovement,
        run \in BOOLEAN :
       LET heading == MoveAngle(TurnedAngle(player.view_angle, turn), player.move_angle,
                                straight, side)
       IN \E sgx \in Signum(Sin(heading)), sgy \in Signum(Cos(heading)) :
            /\ player' = Walk(player, map, straight, side, turn, run, sgx, sgy)
            /\ call' = [op |-> "walk", n |-> call.n + 1, straight |-> straight,
                        side |-> side, turn |-> turn, run |-> run, sgx |-> sgx,
                        sgy |-> sgy, old |-> player]
  /\ UNCHANGED <<video, map, pc, panicked, shape, frame, wall>>

NextWalk == CallWalk

SpecWalk == InitWalk /\ [][NextWalk]_vars

----------------------------------------------------------------------------
(* main.rs: process_input and the frame loop *)

\* ray_caster.rs (source not at hand): one hit per screen column, with
\* height > 0 and tex_x in [0, WALLPIC_WIDTH).  The heights lie on both sides
\* of the horizon distance and turn with the view.
DrawRays(pix_width, p) ==
  [c \in 1..pix_width |->
     [tile |-> 1 + (c % 2), horizontal |-> (c % 3 = 0), tex_x |-> c % WALLPIC_WIDTH,
      height |-> 1 + ((c + p.view_angle) % (BASE_HEIGHT))]]

\* lines 145-151
InputStraight(keys) ==
  IF "Down" \in keys \/ "S" \in keys THEN "Backward"
  ELSE IF "Up" \in keys \/ "W" \in keys THEN "Forward"
  ELSE "None"

\* lines 129-143 and 153-159: the last assignment to side wins
InputSide(keys) ==
  IF "E" \in keys THEN "StrafeRight"
  ELSE IF "Q" \in keys THEN "StrafeLeft"
  ELSE IF ("Right" \in keys \/ "D" \in keys) /\ "X" \in keys THEN "StrafeRight"
  ELSE IF ("Left" \in keys \/ "A" \in keys) /\ "X" \in keys THEN "StrafeLeft"
  ELSE "None"

\* lines 129-143: the last assignment to turn wins
InputTurn(keys) ==
  IF ("Right" \in keys \/ "D" \in keys) /\ "X" \notin keys THEN "TurnRight"
  ELSE IF ("Left" \in keys \/ "A" \in keys) /\ "X" \notin keys THEN "TurnLeft"
  ELSE "None"

\* lines 124-127
InputRun(keys) == "LeftShift" \in keys

\* line 117: the quit signal
QuitSignal(input) == ~input.is_open \/ "Escape" \in input.keys

\* the window states a frame may find: open or closed, and the keys held down
InputStates ==
  {[is_open |-> TRUE, keys |-> {"Up", "LeftShift"}],
   [is_open |-> TRUE, keys |-> {"Left", "S", "Q"}],
   [is_open |-> TRUE, keys |-> {"Escape", "Up"}],
   [is_open |-> FALSE, keys |-> {}]}

\* the steps of one iteration of the loop, in the order of lines 93-108
FrameSteps ==
  <<"walk", "draw_world", "draw_weapon", "draw_minimap", "draw_fps_counter", "present">>

\* the framebuffer with a mark in every pixel, and the pixels a step wrote to it
Marked(v) == [v EXCEPT !.buffer = [o \in 0..(BufferLen(v) - 1) |-> -1]]

Touched(v) == {o \in 0..(BufferLen(v) - 1) : BufferAt(v, o) # -1}

\* number of iterations of the frame loop in one run
MaxFrames == 2

\* the level of the run and the spawn point Map::find_player gives (map.rs, not at hand)
SpawnLevel == Level({<<2, 2>>}, {})

SpawnPlayer ==
  [x |-> 24 * PosScale, y |-> 24 * PosScale, view_angle |-> HalfTurn \div 4,
   move_angle |-> HalfTurn \div 4]

\* lines 65-69: Game::new and Video::new
Init ==
  /\ video = VideoNew(1)
  /\ player = SpawnPlayer
  /\ map = SpawnLevel
  /\ pc = "show_title"
  /\ panicked = FALSE
  /\ call = NoCall
  /\ shape = NoShape
  /\ frame = [n |-> 0, frame_count |-> 0, fps |-> 0, log |-> <<>>, written |-> {}]
  /\ wall = NoWall

\* show_title (lines 166-173): the title picture is drawn and presented until a key is pressed
ShowTitle ==
  /\ pc = "show_title"
  /\ video' = DrawTexture(video, 0, 0, TitlePic)
  /\ pc' = "process_input"
  /\ UNCHANGED <<player, map, panicked, call, shape, frame, wall>>

\* process_input with walk called before the quit signal is looked at
ProcessInputWalksFirst ==
  /\ pc = "process_input" /\ frame.n < MaxFrames
  /\ \E input \in InputStates :
       LET straight == InputStraight(input.keys)
           side == InputSide(input.keys)
           turn == InputTurn(input.keys)
           heading == MoveAngle(TurnedAngle(player.view_angle, turn), player.move_angle,
                                straight, side)
       IN \E sgx \in Signum(Sin(heading)), sgy \in Signum(Cos(heading)) :
            /\ player' = Walk(player, map, straight, side, turn, InputRun(input.keys),
                              sgx, sgy)
            /\ pc' = IF QuitSignal(input) THEN "exit" ELSE "count_frame"
            /\ frame' = [frame EXCEPT !.n = @ + 1, !.log = <<"walk">>, !.written = {}]
  /\ UNCHANGED <<video, map, panicked, call, shape, wall>>

\* the loop condition of line 93: process_input (lines 112-164)
ProcessInput ==
  /\ pc = "process_input" /\ frame.n < MaxFrames
  /\ \E input \in InputStates :
       IF QuitSignal(input)
       THEN /\ pc' = "exit"
            /\ frame' = [frame EXCEPT !.n = @ + 1, !.log = <<>>, !.written = {}]
            /\ UNCHANGED player
       ELSE LET straight == InputStraight(input.keys)
                side == InputSide(input.keys)
                turn == InputTurn(input.keys)
                heading == MoveAngle(TurnedAngle(player.view_angle, turn),
                                     player.move_angle, straight, side)
            IN \E sgx \in Signum(Sin(heading)), sgy \in Signum(Cos(heading)) :
                 /\ player' = Walk(player, map, straight, side, turn,
                                   InputRun(input.keys), sgx, sgy)
                 /\ pc' = "count_frame"
                 /\ frame' = [frame EXCEPT !.n = @ + 1, !.log = <<"walk">>, !.written = {}]
  /\ UNCHANGED <<video, map, panicked, call, shape, wall>>

\* lines 94-101: the frame counter; whether a second has passed is the clock's say
CountFrame ==
  /\ pc = "count_frame"
  /\ \E second_passed \in BOOLEAN :
       frame' = IF second_passed
                THEN [frame EXCEPT !.fps = frame.frame_count + 1, !.frame_count = 0]
                ELSE [frame EXCEPT !.frame_count = @ + 1]
  /\ pc' = "draw_world"
  /\ UNCHANGED <<video, player, map, panicked, call, shape, wall>>

\* line 103
MainDrawWorld ==
  /\ pc = "draw_world"
  /\ video' = DrawWorld(video, DrawRays(video.pix_width, player))
  /\ frame' = [frame EXCEPT
                 !.log = Append(@, "draw_world"),
                 !.written = @ \cup Touched(DrawWorld(Marked(video),
                                                      DrawRays(video.pix_width, player)))]
  /\ pc' = "draw_weapon"
  /\ UNCHANGED <<player, map, panicked, call, shape, wall>>

\* line 104: draw_weapon (lines 217-226)
MainDrawWeapon ==
  /\ pc = "draw_weapon"
  /\ LET done == SimpleScaleShape(video, WeaponSprite.left_pix, WeaponSprite.right_pix,
                                  WeaponSprite.dataofs, WeaponSprite.shape_bytes)
         marks == SimpleScaleShape(Marked(video), WeaponSprite.left_pix,
                                   WeaponSprite.right_pix, WeaponSprite.dataofs,
                                   WeaponSprite.shape_bytes)
     IN /\ video' = done.video
        /\ panicked' = (done.shape.pc # "done")
        /\ pc' = IF done.shape.pc = "done" THEN "draw_minimap" ELSE "panic"
        /\ frame' = [frame EXCEPT !.log = Append(@, "draw_weapon"),
                                  !.written = @ \cup Touched(marks.video)]
  /\ UNCHANGED <<player, map, call, shape, wall>>

\* line 106
MainDrawMinimap ==
  /\ pc = "draw_minimap"
  /\ video' = DrawMinimap(video, map, player, MINIMAP_SCALE)
  /\ frame' = [frame EXCEPT
                 !.log = Append(@, "draw_minimap"),
                 !.written = @ \cup Touched(DrawMinimap(Marked(video), map, player,
                                                        MINIMAP_SCALE))]
  /\ pc' = "draw_fps_counter"
  /\ UNCHANGED <<player, map, panicked, call, shape, wall>>

\* line 107
MainDrawFpsCounter ==
  /\ pc = "draw_fps_counter"
  /\ video' = DrawFpsCounter(video, frame.fps)
  /\ frame' = [frame EXCEPT
                 !.log = Append(@, "draw_fps_counter"),
                 !.written = @ \cup Touched(DrawFpsCounter(Marked(video), frame.fps))]
  /\ pc' = "present"
  /\ UNCHANGED <<player, map, panicked, call, shape, wall>>

\* line 108: Video::present hands the whole buffer to the window
Present ==
  /\ pc = "present"
  /\ frame' = [frame EXCEPT !.log = Append(@, "present")]
  /\ call' = [op |-> "present", n |-> call.n + 1]
  /\ pc' = "process_input"
  /\ UNCHANGED <<video, player, map, panicked, shape, wall>>

Next ==
  \/ ShowTitle
  \/ ProcessInput
  \/ CountFrame
  \/ MainDrawWorld
  \/ MainDrawWeapon
  \/ MainDrawMinimap
  \/ MainDrawFpsCounter
  \/ Present

Spec == Init /\ [][Next]_vars

----------------------------------------------------------------------------
(* SpecShape: Video::simple_scale_shape on a few sprites, step by step *)

\* the display scales SpecShape runs (Opts.scale is 1..5)
ShapeScales == {1, 4}

InitShape ==
  /\ video \in {VideoNew(s) : s \in ShapeScales}
  /\ player = NoPlayer
  /\ map = NoMap
  /\ pc = "shape"
  /\ panicked = FALSE
  /\ call = NoCall
  /\ \E sp \in Sprites :
       shape = ShapeStart(video, sp.left_pix, sp.right_pix, sp.dataofs, sp.shape_bytes)
  /\ frame = NoFrame
  /\ wall = NoWall

\* the step at loop head `label`, and the record of the pixel write it makes
ShapeAt(label) ==
  /\ pc = "shape" /\ shape.pc = label
  /\ shape' = ShapeStep(shape, video)
  /\ video' = ShapeStepVideo(shape, video)
  /\ panicked' = (ShapeStep(shape, video).pc = "panic")
  /\ call' = IF WritesPixel(shape)
             THEN [op |-> "put_pixel", n |-> call.n + 1, x |-> shape.lpix, y |-> shape.pixy,
                   color_index |-> shape.col, i |-> shape.i, j |-> shape.j,
                   cmdptr |-> shape.cmdptr, run |-> shape.pos,
                   prev |-> IF call.op = "put_pixel"
                            THEN [x |-> call.x, y |-> call.y, i |-> call.i, j |-> call.j,
                                  cmdptr |-> call.cmdptr, run |-> call.run]
                            ELSE [x |-> -1]]
             ELSE call
  /\ UNCHANGED <<player, map, pc, frame, wall>>

ShapeCol == ShapeAt("col")

ShapeDst == ShapeAt("dst")

ShapeRun == ShapeAt("run")

ShapeRow == ShapeAt("row")

ShapePix == ShapeAt("pix")

NextShape == ShapeCol \/ ShapeDst \/ ShapeRun \/ ShapeRow \/ ShapePix

SpecShape == InitShape /\ [][NextShape]_vars

----------------------------------------------------------------------------
(* SpecDecode: Video::simple_scale_shape on well-formed and malformed sprites,
   with the steps of the call taken until it ends *)

\* run lists: none; one run; two runs; a run that starts below its end row; a
\* run with the largest end row; a run addressed with a negative offset
DecodeRuns ==
  {<<>>, RunBytes(0, 64, 0), RunBytes(8, 24, 0) \o RunBytes(40, 64, 0), RunBytes(40, 8, 0),
   RunBytes(0, 32767, 0), RunBytes(20, 40, -20)}

\* what follows the runs when the zero word is missing: nothing, or a lone byte
\* that read_word completes with a zero high byte
DecodeTails == {<<>>, <<5>>}

\* lengths of the offset table: one entry per source column, or too few
DecodeTables == {8, 2}

\* offsets of the column streams: after the pixel bytes, one byte before the
\* end of them, or past the end of the stream
DecodeOffsets == {64, 63, 200}

\* a sprite of source columns 28..35 whose columns all share one stream
DecodeSprite(runs, terminated, tail, table, offset) ==
  [left_pix |-> 28, right_pix |-> 35,
   dataofs |-> [k \in 1..table |-> offset],
   shape_bytes |-> PixelBytes(64) \o ColumnBytes(runs, terminated)
                     \o (IF terminated THEN <<>> ELSE tail)]

DecodeSprites ==
  Sprites \cup
  {DecodeSprite(runs, terminated, tail, table, offset) :
     runs \in DecodeRuns, terminated \in BOOLEAN, tail \in DecodeTails,
     table \in DecodeTables, offset \in DecodeOffsets}

InitDecode ==
  /\ video = VideoNew(1)
  /\ player = NoPlayer
  /\ map = NoMap
  /\ pc = "shape"
  /\ panicked = FALSE
  /\ call = NoCall
  /\ \E sp \in DecodeSprites :
       shape = ShapeStart(video, sp.left_pix, sp.right_pix, sp.dataofs, sp.shape_bytes)
  /\ frame = NoFrame
  /\ wall = NoWall

\* the call runs on: no loop iteration is suspended (the loops have no await)
SpecDecode == InitDecode /\ [][NextShape]_vars /\ WF_vars(NextShape)

----------------------------------------------------------------------------
(* SpecRoam: a sequence of walks from the spawn point of a level with a pillar *)

\* number of walks in one run of SpecRoam
MaxRoam == 4

\* The player spawns facing along the y axis (view angle 0.0) and walks along
\* the axes: forward, backward or sideways, not diagonally.  The displacements
\* are then 0, 2.5 or 5 world units and the fixed-point positions are the f64
\* positions exactly.
RoamAngles == {0}

RoamIntents ==
  {<<"Forward", "None">>, <<"Backward", "None">>, <<"None", "StrafeLeft">>,
   <<"None", "StrafeRight">>}

\* the walks of SpecRoam keep the view angle: SpecWalk has the turns
RoamTurns == {"None"}

\* signum of the sine of an axis heading computed from view angle 0.0:
\* sin(0.0) is +0.0 and sin(0.0 - PI) is -1.2e-16
AxisSignumSin(heading) ==
  IF Sin(heading) # 0 THEN Signum(Sin(heading)) ELSE IF heading = 0 THEN {1} ELSE {-1}

\* signum of the cosine: cos(PI / 2) and cos(-PI / 2) are 6.1e-17
AxisSignumCos(heading) == IF Cos(heading) # 0 THEN Signum(Cos(heading)) ELSE {1}

\* the pillar level; map.rs (not at hand) spawns the player at a tile centre
InitRoam ==
  /\ video = NoVideo
  /\ map = Level({<<2, 2>>}, {})
  /\ \E a \in RoamAngles :
       player = [x |-> 24 * PosScale, y |-> 24 * PosScale, view_angle |-> a, move_angle |-> a]
  /\ pc = "roam"
  /\ panicked = FALSE
  /\ call = NoCall
  /\ shape = NoShape
  /\ frame = NoFrame
  /\ wall = NoWall

\* one more call of Player::walk
Roam ==
  /\ pc = "roam" /\ call.n < MaxRoam
  /\ \E intent \in RoamIntents, turn \in RoamTurns, run \in BOOLEAN :
       LET straight == intent[1]
           side == intent[2]
           heading == MoveAngle(TurnedAngle(player.view_angle, turn), player.move_angle,
                                straight, side)
       IN \E sgx \in AxisSignumSin(heading), sgy \in AxisSignumCos(heading) :
            /\ player' = Walk(player, map, straight, side, turn, run, sgx, sgy)
            /\ call' = [op |-> "walk", n |-> call.n + 1, straight |-> straight,
                        side |-> side, turn |-> turn, run |-> run, sgx |-> sgx, sgy |-> sgy]
  /\ UNCHANGED <<video, map, pc, panicked, shape, frame, wall>>

NextRoam == Roam

SpecRoam == InitRoam /\ [][NextRoam]_vars

----------------------------------------------------------------------------
(* SpecWall: the wall loops of draw_world (lines 188-214), row by row *)

\* cache.rs (source not at hand): a wall texture is WALLPIC_WIDTH x WALLPIC_WIDTH bytes
TextureLen == WALLPIC_WIDTH * WALLPIC_WIDTH

\* lines 189-202: the locals of column x on entry to its row loop
WallStart(v, x, hit) ==
  [pc |-> "row", x |-> x, hit |-> hit, wallpic |-> WallPic(hit), current |-> hit.height,
   xoff |-> hit.tex_x * WALLPIC_WIDTH, k |-> 0, y |-> v.pix_center - hit.height]

\* line 206: source = ytex as usize + xoff
WallSource(w) == YTex(w.k, w.current) + w.xoff

\* line 207: texture[source] with source outside the texture panics
WallRowPanics(v, w) == WallRowDrawn(v, w.y) /\ WallSource(w) >= TextureLen

\* lines 204-213: the video after the row at the head of the loop
WallRowVideo(v, w) ==
  IF WallRowDrawn(v, w.y) /\ ~WallRowPanics(v, w)
  THEN PutDarkenedPixel(v, w.x, w.y, Texel(w.wallpic, WallSource(w)), w.current)
  ELSE v

\* ray_caster.rs (source not at hand): hits a column may get.  The heights are
\* a far wall, walls lower and higher than the view, and a wall right in front.
WallHeights == {1, 6, 11, 30}

WallHits ==
  {[tile |-> 1, horizontal |-> TRUE, tex_x |-> 0, height |-> h] : h \in WallHeights}
    \cup {[tile |-> 2, horizontal |-> FALSE, tex_x |-> WALLPIC_WIDTH - 1, height |-> h] :
            h \in WallHeights}

\* columns the row-by-row run takes up draw_world at; the wall columns before
\* them write other pixels and are left out
WallStartColumns(v) == {v.pix_width - 2, v.pix_width - 1}

\* lines 176-186 have run: the ceiling and the floor are drawn
InitWall ==
  /\ video = SkyFloor(VideoNew(1), 0, VideoNew(1).pix_width)
  /\ player = NoPlayer
  /\ map = NoMap
  /\ pc = "draw_world"
  /\ panicked = FALSE
  /\ call = NoCall
  /\ shape = NoShape
  /\ frame = NoFrame
  /\ \E x \in WallStartColumns(video), hit \in WallHits : wall = WallStart(video, x, hit)

\* lines 204-213: one iteration of the row loop
WallRow ==
  /\ pc = "draw_world" /\ wall.pc = "row"
  /\ wall.y < video.pix_center + wall.current
  /\ video' = WallRowVideo(video, wall)
  /\ panicked' = WallRowPanics(video, wall)
  /\ wall' = [wall EXCEPT !.k = @ + 1, !.y = @ + 1,
                          !.pc = IF WallRowPanics(video, wall) THEN "panic" ELSE "row"]
  /\ call' = [op |-> IF WallRowDrawn(video, wall.y) THEN "put_darkened_pixel" ELSE "clipped",
              n |-> call.n + 1, x |-> wall.x, y |-> wall.y, k |-> wall.k,
              current |-> wall.current, tex_x |-> wall.hit.tex_x,
              source |-> WallSource(wall),
              color_index |-> Texel(wall.wallpic, WallSource(wall)),
              lightness |-> wall.current,
              changed |-> WallRowVideo(video, wall).buffer # video.buffer]
  /\ UNCHANGED <<player, map, pc, shape, frame>>

\* line 188: the row loop of column x has ended; the next column, if there is one
WallNextColumn ==
  /\ pc = "draw_world" /\ wall.pc = "row"
  /\ wall.y >= video.pix_center + wall.current
  /\ IF wall.x + 1 < video.pix_width
     THEN \E hit \in WallHits : wall' = WallStart(video, wall.x + 1, hit)
     ELSE wall' = [wall EXCEPT !.pc = "done"]
  /\ UNCHANGED <<video, player, map, pc, panicked, call, shape, frame>>

NextWall == WallRow \/ WallNextColumn

SpecWall == InitWall /\ [][NextWall]_vars

----------------------------------------------------------------------------
(* Claims about Player::walk, checked under SpecWalk *)

Walked == call.op = "walk"

Moving == Walked /\ (call.straight # "None" \/ call.side # "None")

\* the tentative position of the last walk (lines 72-73)
TentativeX == NewX(call.old.x, player.move_angle, call.run)

TentativeY == NewY(call.old.y, player.move_angle, call.run)

\* the three test cells of the last walk
XLeadingWall == IsWall(map, CellX(TentativeX, call.sgx), CellY(TentativeY, -call.sgy))

YLeadingWall == IsWall(map, CellX(TentativeX, -call.sgx), CellY(TentativeY, call.sgy))

CornerWall == IsWall(map, CellX(TentativeX, call.sgx), CellY(TentativeY, call.sgy))

\* C1: collision containment.  walk never commits an axis whose offset test cell
\* is a wall: x changes only to the tentative new_x, and only if the X-leading
\* cell is not a wall; y changes only to new_y, and only if the Y-leading cell
\* is not a wall.
C1_CollisionContainment ==
  Moving =>
    /\ (player.x # call.old.x => player.x = TentativeX /\ ~XLeadingWall)
    /\ (player.y # call.old.y => player.y = TentativeY /\ ~YLeadingWall)

\* a walk that committed one axis and refused the other because of its wall
C1_Witness ==
  /\ Moving
  /\ player.x # call.old.x /\ player.x = TentativeX
  /\ YLeadingWall /\ TentativeY # call.old.y /\ player.y = call.old.y

\* C2: with neither a straight nor a side intent, walk leaves x, y and
\* move_angle as they were, whatever the turn intent, the run flag and the map.
C2_TurningNeverTranslates ==
  (Walked /\ call.straight = "None" /\ call.side = "None") =>
    /\ player.x = call.old.x
    /\ player.y = call.old.y
    /\ player.move_angle = call.old.move_angle

\* a pure turn with the run flag set: the view angle changed
C2_Witness ==
  /\ Walked /\ call.straight = "None" /\ call.side = "None"
  /\ call.turn = "TurnLeft" /\ call.run
  /\ player.view_angle # call.old.view_angle

\* the eight offsets of the claim, in angle units
HeadingOffset(straight, side) ==
  CASE straight = "Forward" /\ side = "None" -> 0
    [] straight = "Backward" /\ side = "None" -> HalfTurn
    [] straight = "None" /\ side = "StrafeLeft" -> HalfTurn \div 2
    [] straight = "None" /\ side = "StrafeRight" -> -(HalfTurn \div 2)
    [] straight = "Forward" /\ side = "StrafeLeft" -> HalfTurn \div 4
    [] straight = "Forward" /\ side = "StrafeRight" -> -(HalfTurn \div 4)
    [] straight = "Backward" /\ side = "StrafeLeft" -> 3 * (HalfTurn \div 4)
    [] straight = "Backward" /\ side = "StrafeRight" -> -(3 * (HalfTurn \div 4))

\* C3: with a straight or side intent, move_angle is, modulo a full turn, the
\* post-turn view_angle plus the offset the intents determine; with no intent
\* move_angle keeps its value.
C3_EightHeadings ==
  Walked =>
    IF call.straight # "None" \/ call.side # "None"
    THEN (player.move_angle - player.view_angle
            - HeadingOffset(call.straight, call.side)) % FullTurn = 0
    ELSE player.move_angle = call.old.move_angle

\* backward and strafe left after a turn: heading = turned view angle + 3 pi / 4
C3_Witness ==
  /\ Walked /\ call.straight = "Backward" /\ call.side = "StrafeLeft"
  /\ call.turn = "TurnRight"
  /\ player.view_angle # call.old.view_angle

\* how far the corner point lies past the grid line it crossed, along one axis
DepthPastGridLine(new_pos, sg, tile) == (sg * (new_pos + sg * PLAYER_WIDTH * PosScale)) % tile

\* C9: per-axis, all-or-nothing commit according to the three test cells.
C9_PerAxisCommit ==
  Moving =>
    LET xw == XLeadingWall
        yw == YLeadingWall
        cw == CornerWall
        dx == DepthPastGridLine(TentativeX, call.sgx, MAP_SCALE_W * PosScale)
        dy == DepthPastGridLine(TentativeY, call.sgy, MAP_SCALE_H * PosScale)
        OnlyX == player.x = TentativeX /\ player.y = call.old.y
        OnlyY == player.y = TentativeY /\ player.x = call.old.x
    IN /\ (xw /\ ~yw) => OnlyY
       /\ (yw /\ ~xw) => OnlyX
       /\ (cw /\ ~xw /\ ~yw) =>
            IF dx * MAP_SCALE_H > dy * MAP_SCALE_W THEN OnlyX ELSE OnlyY
       /\ (~cw /\ ~xw /\ ~yw) => (player.x = TentativeX /\ player.y = TentativeY)
       /\ (xw /\ yw) => (player.x = call.old.x /\ player.y = call.old.y)

\* the corner case: only the diagonal cell is a wall and the move goes both ways
C9_Witness ==
  /\ Moving
  /\ CornerWall /\ ~XLeadingWall /\ ~YLeadingWall
  /\ TentativeX # call.old.x /\ TentativeY # call.old.y
  /\ player.x = TentativeX /\ player.y = call.old.y

----------------------------------------------------------------------------
(* Claims about the pixel writers, checked under SpecPixel *)

PixelCall == call.op \in {"put_pixel", "put_darkened_pixel"}

\* the last call was put_darkened_pixel and it stored a pixel
Darkened ==
  /\ call.op = "put_darkened_pixel"
  /\ call.x < video.width /\ call.y < video.height
  /\ call.color_index < ColorMapLen

StoredPixel == BufferAt(video, call.y * video.width + call.x)

Channels(p) == <<Red(p), Green(p), Blue(p)>>

\* what put_darkened_pixel stores for the last call's pixel and color at lightness l
PixelAt(l) ==
  BufferAt(PutDarkenedPixel(video, call.x, call.y, call.color_index, l),
           call.y * video.width + call.x)

\* C4: a pixel write with x >= width, y >= height or a palette index >= 256 is
\* dropped: the framebuffer is unchanged and the call does not fail.
C4_OutOfBoundsDropped ==
  (PixelCall /\ (call.x >= video.width \/ call.y >= video.height
                   \/ call.color_index >= 256)) =>
    (~call.changed /\ ~panicked)

\* C6 as stated: a larger distance argument never gives a larger channel, and
\* at distance 0 each channel is the palette channel times 1/DARKNESS.
C6_DarkeningMonotone_AsStated ==
  Darkened =>
    /\ \A l \in 0..(2 * video.pix_center), k \in 1..3 :
         l >= call.lightness => Channels(PixelAt(l))[k] <= Channels(StoredPixel)[k]
    /\ call.lightness = 0 =>
         \A k \in 1..3 :
           Channels(StoredPixel)[k]
             = AsU8(color_map[call.color_index + 1][k] * DARKNESS_DEN, DARKNESS_NUM)

\* C6 amended: a larger lightness argument never gives a smaller channel; at 0
\* every channel is 0, and from pix_center on each channel is the palette
\* channel times 1/DARKNESS, truncated and saturated to 8 bits.
C6_DarkeningMonotone ==
  Darkened =>
    /\ \A l \in 0..(2 * video.pix_center), k \in 1..3 :
         l >= call.lightness => Channels(PixelAt(l))[k] >= Channels(StoredPixel)[k]
    /\ call.lightness = 0 => StoredPixel = 0
    /\ call.lightness >= video.pix_center =>
         \A k \in 1..3 :
           Channels(StoredPixel)[k]
             = AsU8(color_map[call.color_index + 1][k] * DARKNESS_DEN, DARKNESS_NUM)

\* a pixel darkened part of the way: brighter than black, darker than at the horizon distance
C6_Witness ==
  /\ Darkened
  /\ call.lightness > 0 /\ call.lightness < video.pix_center
  /\ Red(StoredPixel) > 0
  /\ Red(StoredPixel) < Red(PixelAt(video.pix_center))

\* C10: the darkening factor is at most 1, so no stored channel is brighter than
\* the palette channel it was derived from.
C10_FactorAtMostOne ==
  Darkened =>
    /\ Min(call.lightness, video.pix_center) * DARKNESS_DEN <= video.pix_center * DARKNESS_NUM
    /\ \A k \in 1..3 : Channels(StoredPixel)[k] <= color_map[call.color_index + 1][k]

----------------------------------------------------------------------------
(* Claims about Video::simple_scale_shape, checked under SpecShape *)

ShapeWrote == pc = "shape" /\ call.op = "put_pixel"

\* C7: scan monotonicity.  The pixel writes of simple_scale_shape come with
\* non-decreasing destination columns; within one run of one destination
\* column the source row and the destination row do not decrease; and every
\* write has column < pix_width and row < pix_height.
C7_ScanMonotone ==
  ShapeWrote =>
    /\ call.x < video.pix_width
    /\ call.y < video.pix_height
    /\ call.prev.x >= 0 =>
         /\ call.prev.x <= call.x
         /\ (call.prev.x = call.x /\ call.prev.run = call.run) =>
              (call.prev.j <= call.j /\ call.prev.y <= call.y)

\* a write of a later source column that continues a run down to the last row of the view
C7_Witness ==
  /\ ShapeWrote
  /\ call.i > shape.left_pix
  /\ call.prev.x = call.x /\ call.prev.run = call.run /\ call.prev.y < call.y
  /\ call.y = video.pix_height - 1


----------------------------------------------------------------------------
(* the frame loop *)

\* the pixels of the frame about to be presented that no drawing step of this
\* iteration wrote
StalePixels == (0..(BufferLen(video) - 1)) \ frame.written

\* C5 as stated: when present is called, every pixel of the width x height
\* buffer, the rows at and below pix_height included, has been written by a
\* drawing step of this iteration, so none still carries the title picture or
\* an earlier frame.
C5_FullyOverwritten == pc = "present" => StalePixels = {}

\* the steps of the iteration that have run when control is at a point of the loop
StepsBefore(at) ==
  CASE at = "count_frame" -> 1
    [] at = "draw_world" -> 1
    [] at = "draw_weapon" -> 2
    [] at = "draw_minimap" -> 3
    [] at = "draw_fps_counter" -> 4
    [] at = "present" -> 5
    [] OTHER -> 0

\* the loop has been left through the quit signal
Quit == pc = "exit"

\* the step that takes the quit signal commits nothing
QuitCommitsNothing ==
  (pc = "process_input" /\ pc' = "exit")
    => /\ player' = player
       /\ video' = video
       /\ call' = call
       /\ frame'.log = <<>>
       /\ frame'.written = {}

\* what holds of the loop at every point
FrameOrder ==
  /\ pc \in {"count_frame", "draw_world", "draw_weapon", "draw_minimap",
             "draw_fps_counter", "present"}
       => frame.log = SubSeq(FrameSteps, 1, StepsBefore(pc))
  /\ (pc = "process_input" /\ frame.n > 0) => frame.log = FrameSteps
  /\ Quit => (frame.log = <<>> /\ frame.written = {} /\ ~ENABLED Next)
  /\ call.n = (IF pc \in {"show_title", "process_input"} THEN frame.n ELSE frame.n - 1)

\* C8: in the iteration where process_input sees the quit signal, walk is not
\* called, nothing is drawn or presented and the loop ends there; any other
\* iteration runs walk, draw_world, draw_weapon, draw_minimap, draw_fps_counter
\* and present, in that order, and presents once.
C8_QuitBetweenFrames == []FrameOrder /\ [][QuitCommitsNothing]_vars

\* the quit signal arrives after a frame has been presented
C8_Witness == Quit /\ frame.n = 2 /\ call.op = "present" /\ call.n = 1

----------------------------------------------------------------------------
(* the wall loops of draw_world *)

\* the last step was a row of a wall column
WallRowStep == wall.pc # "idle" /\ call.op \in {"put_darkened_pixel", "clipped"}

\* the last step wrote a wall pixel
WallWrote == wall.pc # "idle" /\ call.op = "put_darkened_pixel"

\* C11 as stated: draw_world writes wall pixels only at rows y with
\* 0 <= y < pix_height and center - height <= y < center + height; no wall
\* pixel is written at row pix_height or below.
C11_WallColumnsClipped ==
  WallWrote =>
    /\ 0 <= call.y /\ call.y < video.pix_height
    /\ video.pix_center - call.current <= call.y
    /\ call.y < video.pix_center + call.current

\* the texture row the last wall row sampled: ytex as usize
SampledRow == call.source - call.tex_x * WALLPIC_WIDTH

\* the row the claim gives for the k-th row of a column
StatedRow == (call.k * WALLPIC_WIDTH) \div (2 * call.current)

\* C12 as stated: the k-th row of [center - height, center + height), clipped
\* or not, samples texel floor(k * WALLPIC_WIDTH / (2 * height)), which is
\* below WALLPIC_WIDTH, and the sample index is below WALLPIC_WIDTH squared.
C12_TextureSampling_AsStated ==
  WallRowStep =>
    /\ call.k = call.y - (video.pix_center - call.current)
    /\ SampledRow = StatedRow
    /\ SampledRow < WALLPIC_WIDTH
    /\ call.source < WALLPIC_WIDTH * WALLPIC_WIDTH

\* C12 amended: the texture coordinate advances on every row of
\* [center - height, center + height), clipped or not; the k-th row samples
\* texel floor(k * WALLPIC_WIDTH / (2 * height)), or the texel just below it
\* when that quotient is a whole number the f64 sum falls short of; the texel
\* is in [0, WALLPIC_WIDTH), the sample index is below WALLPIC_WIDTH squared
\* and the texture lookup never fails.
C12_TextureSampling ==
  /\ wall.pc # "panic"
  /\ WallRowStep =>
       /\ call.k = call.y - (video.pix_center - call.current)
       /\ \/ SampledRow = StatedRow
          \/ /\ SampledRow = StatedRow - 1
             /\ (call.k * WALLPIC_WIDTH) % (2 * call.current) = 0
       /\ 0 <= SampledRow /\ SampledRow < WALLPIC_WIDTH
       /\ call.source < WALLPIC_WIDTH * WALLPIC_WIDTH

\* the last row drawn of a wall higher than the view, in the texture's last
\* column: its upper rows were clipped and advanced the texture coordinate
C12_Witness ==
  /\ WallWrote
  /\ call.current > video.pix_center
  /\ call.y = video.pix_height
  /\ call.tex_x = WALLPIC_WIDTH - 1
  /\ SampledRow > WALLPIC_WIDTH \div 2

----------------------------------------------------------------------------
(* sequences of walks *)

\* the tile the player's position lies in: (x / MAP_SCALE_W, y / MAP_SCALE_H)
PlayerTileX == player.x \div (MAP_SCALE_W * PosScale)

PlayerTileY == player.y \div (MAP_SCALE_H * PosScale)

\* C13 as stated: from a position in a tile that is not a wall, on a map
\* enclosed by a wall ring, no sequence of walks with any intents and run
\* flags leaves the player's position in a wall tile.
C13_NeverInsideWall == pc = "roam" => ~IsWall(map, PlayerTileX, PlayerTileY)

----------------------------------------------------------------------------
(* termination of the sprite rasterizer *)

\* the call has ended: it returned, or it panicked on an index out of range
ShapeEnded == shape.pc \in {"done", "panic"}

\* the end-row word at the head of `while endy > 0` was read wholly past the
\* end of the byte stream
EndWordPastStream == shape.cline + shape.pos - 2 >= Len(shape.shape_bytes)

\* a zero end-row word ends the column's run list: the next step leaves the
\* run loop without reading another word
ZeroWordEndsColumn ==
  shape.pc = "run" /\ shape.endy = 0 =>
    shape'.pc = "dst" /\ shape'.pos = shape.pos /\ shape'.lpix = shape.lpix + 1

\* words read past the end of the stream are zero
MissingWordIsZero == shape.pc = "run" /\ EndWordPastStream => shape.endy = 0

\* every return to the head of a loop has moved the loop's variable toward
\* the loop's bound, and has left the bound alone
LoopProgress ==
  /\ shape'.pc = "col" /\ shape.pc \in {"col", "dst"} =>
       shape'.i > shape.i /\ shape'.right_pix = shape.right_pix
  /\ shape'.pc = "dst" /\ shape.pc = "run" =>
       shape'.lpix > shape.lpix /\ shape'.rpix = shape.rpix
  /\ shape'.pc = "run" /\ shape.pc = "row" =>
       shape'.pos > shape.pos /\ shape'.cline = shape.cline
         /\ shape'.shape_bytes = shape.shape_bytes
  /\ shape'.pc = "row" /\ shape.pc \in {"row", "pix"} =>
       shape'.j > shape.j /\ shape'.endy = shape.endy
  /\ shape'.pc = "pix" /\ shape.pc = "pix" =>
       shape'.scrstarty > shape.scrstarty /\ shape'.screndy = shape.screndy

\* C14: Video::simple_scale_shape ends for every finite byte stream and offset
\* table: a column's run list stops at the first zero end-row word, a stream
\* without the terminator is read as zero and stops as well, and each of the
\* five nested loops makes strict progress toward its bound.
C14_ShapeTerminates ==
  /\ <>ShapeEnded
  /\ []MissingWordIsZero
  /\ [][ZeroWordEndsColumn /\ LoopProgress]_vars

\* a sprite without the terminator has been drawn and the call has returned
\* after reading its end-row word past the end of the stream
C14_Witness ==
  /\ shape.pc = "done" /\ call.op = "put_pixel"
  /\ shape.shape_bytes = UnterminatedSprite.shape_bytes
  /\ EndWordPastStream /\ shape.endy = 0
====
